---- MODULE Spec2Model ----
(***************************************************************************)
(* Match read paths of the onescore backend: the cricket and football      *)
(* controllers, the SportsMonks and Cricket Data provider clients, the     *)
(* Redis cache wrapper, the payload transformers and the error handler.    *)
(*                                                                         *)
(* A request is a process that advances from one await to the next; every  *)
(* synchronous stretch of code between two awaits is one step.             *)
(***************************************************************************)
EXTENDS Integers, Sequences, FiniteSets, TLC

VARIABLES
    env,        \* process.env.NODE_ENV
    apiToken,   \* SportsMonksService.config.apiToken is non-empty
    ticks,      \* number of clock advances so far
    cache,      \* Redis: key -> entry
    started,    \* number of requests received so far
    req,        \* request slot -> request state
    calc,       \* a call of a normalizer or of the cache-key expression on its own
    db          \* MongoDB: the thread, vote and comment collections

vars == <<env, apiToken, ticks, cache, started, req, calc, db>>

(***************************************************************************)
(* Bounds                                                                  *)
(***************************************************************************)
MaxRequests == 2
MaxTicks == 1

\* the requests of a run are served one after the other
Reqs == {1}
\* seconds between two requests
TickSteps == {1800}

(***************************************************************************)
(* Inputs                                                                  *)
(***************************************************************************)
Envs == {"production", "development"}

\* absent values: a missing number is 0, a missing string is "", a missing
\* object property is a field the record does not have
NoData == [undefined |-> TRUE]
NullMatch == [null |-> TRUE]
Absent == <<>>

\* dates relative to the wall clock at the time they are compared
DateRank(d) == CASE d = "past" -> 0 [] d = "inplay" -> 1 [] d = "now" -> 1 [] d = "future" -> 2
NewDate(d) == [date |-> d]
DateOf(v) == IF "date" \in DOMAIN v THEN v.date ELSE v.iso

(***************************************************************************)
(* JSON                                                                    *)
(***************************************************************************)
\* Date.prototype.toJSON: a Date becomes its ISO string, a string stays
ToISO(v) == IF "date" \in DOMAIN v THEN [iso |-> v.date] ELSE v

StringifyMatch(m) ==
    IF "startTime" \in DOMAIN m THEN [m EXCEPT !.startTime = ToISO(@)] ELSE m

StringifyMatches(l) == [i \in DOMAIN l |-> StringifyMatch(l[i])]

StringifyPage(field, r) == [r EXCEPT ![field] = StringifyMatches(@)]

\* JSON.stringify / JSON.parse of a value; JSON.stringify(undefined) is undefined
JSONStringify(v) == [json |-> v]
StringifyOptional(v) == IF v = NoData THEN NoData ELSE JSONStringify(v)
JSONParse(t) == t.json

(***************************************************************************)
(* transformSportsMonksMatchToFrontend                                     *)
(***************************************************************************)
\* Array.prototype.find: index of the first element satisfying P, 0 if none
FindIndex(s, P(_)) ==
    IF \E i \in DOMAIN s : P(s[i])
    THEN CHOOSE i \in DOMAIN s : P(s[i]) /\ \A j \in 1..(i - 1) : ~P(s[j])
    ELSE 0

EmptyParticipant == [id |-> 0, name |-> "", location |-> ""]
EmptyScore == [score |-> 0, scoreboard |-> "", participant_id |-> 0, wickets |-> 0]

\* find(...) || arr[k] || {}
FindOr(s, P(_), k, empty) ==
    IF FindIndex(s, P) # 0 THEN s[FindIndex(s, P)]
    ELSE IF k \in DOMAIN s THEN s[k] ELSE empty

IdString(id) == IF id = 0 THEN "" ELSE ToString(id)

SportsMonksStatusInPlayOnly(stateId) ==
    IF stateId = 3 \/ stateId = 4 THEN "live" ELSE "upcoming"
SportsMonksStatus(stateId) ==
    IF stateId = 5 \/ stateId = 6 THEN "completed"
    ELSE IF stateId = 3 \/ stateId = 4 THEN "live"
    ELSE "upcoming"

SportsMonksFormat(typeId) ==
    IF typeId = 1 THEN "test" ELSE IF typeId = 2 THEN "odi" ELSE "t20"

transformSportsMonksMatchToFrontend(apiMatch, sport) ==
    LET participants == apiMatch.participants
        IsHome(p) == p.location = "home"
        IsAway(p) == p.location = "away"
        homeParticipant == FindOr(participants, IsHome, 1, EmptyParticipant)
        awayParticipant == FindOr(participants, IsAway, 2, EmptyParticipant)
        scores == apiMatch.scores
        HomeSc(s) == s.scoreboard = "1" \/ s.participant_id = homeParticipant.id
        AwaySc(s) == s.scoreboard = "2" \/ s.participant_id = awayParticipant.id
        homeScore == FindOr(scores, HomeSc, 1, EmptyScore)
        awayScore == FindOr(scores, AwaySc, 2, EmptyScore)
        status == SportsMonksStatus(apiMatch.state_id)
        teams == [home |-> [id |-> IdString(homeParticipant.id),
                            name |-> IF homeParticipant.name # "" THEN homeParticipant.name ELSE "Team 1"],
                  away |-> [id |-> IdString(awayParticipant.id),
                            name |-> IF awayParticipant.name # "" THEN awayParticipant.name ELSE "Team 2"]]
    IN  (IF apiMatch.id # 0
            THEN [_id |-> ToString(apiMatch.id), matchId |-> ToString(apiMatch.id)]
            ELSE Absent)
        @@ [name |-> IF apiMatch.name # "" THEN apiMatch.name
                     ELSE teams.home.name \o " vs " \o teams.away.name,
            teams |-> teams,
            venue |-> [name |-> IF apiMatch.venue # "" THEN apiMatch.venue ELSE "Unknown Venue"],
            status |-> status,
            startTime |-> IF apiMatch.starting_at # "" THEN NewDate(apiMatch.starting_at)
                          ELSE NewDate("now"),
            matchStarted |-> (status = "live" \/ status = "completed"),
            matchEnded |-> (status = "completed"),
            series |-> IF apiMatch.league # "" THEN apiMatch.league ELSE "Unknown Series"]
        @@ (IF sport = "cricket" THEN [format |-> SportsMonksFormat(apiMatch.type_id)] ELSE Absent)
        @@ (IF sport = "football" /\ apiMatch.league # "" THEN [league |-> apiMatch.league] ELSE Absent)
        @@ (IF status = "live" /\ Len(scores) > 0
            THEN [currentScore |->
                    [home |-> [runs |-> homeScore.score,
                               wickets |-> IF sport = "football" THEN 0 ELSE homeScore.wickets],
                     away |-> [runs |-> awayScore.score,
                               wickets |-> IF sport = "football" THEN 0 ELSE awayScore.wickets]]]
            ELSE Absent)
        @@ (IF status = "completed" /\ Len(scores) > 0
            THEN [score |-> [home |-> homeScore.score, away |-> awayScore.score]]
            ELSE Absent)

\* apiMatches.map(transform) throws a TypeError on a null element
TransformThrows(apiMatches) == \E i \in DOMAIN apiMatches : apiMatches[i] = NullMatch

MapSportsMonks(apiMatches, sport) ==
    [i \in DOMAIN apiMatches |-> transformSportsMonksMatchToFrontend(apiMatches[i], sport)]

(***************************************************************************)
(* transformApiMatchToDbSchema / transformApiMatchToFrontend               *)
(***************************************************************************)
EmptyInning == [r |-> 0, w |-> 0, team |-> "", num |-> 0]

\* statusLower.includes(...) on the provider's free-text status
StatusSaysCompleted(st) == st \in {"won", "completed", "finished"}
StatusSaysLive(st) == st \in {"live", "in progress"}

CricketDataStatus(apiMatch) ==
    IF apiMatch.matchStarted /\ apiMatch.matchEnded THEN "completed"
    ELSE IF apiMatch.matchStarted /\ ~apiMatch.matchEnded THEN "live"
    ELSE IF apiMatch.status # "" THEN
        IF StatusSaysCompleted(apiMatch.status) THEN "completed"
        ELSE IF StatusSaysLive(apiMatch.status) THEN "live"
        ELSE "upcoming"
    ELSE "upcoming"

CricketDataFormat(matchType) ==
    IF matchType \in {"test", "odi", "t20i", "t20", "first-class", "list-a"} THEN matchType
    ELSE IF matchType = "firstclass" THEN "first-class"
    ELSE IF matchType = "lista" THEN "list-a"
    ELSE "t20"

transformApiMatchToDbSchema(apiMatch) ==
    LET teams == apiMatch.teams
        home == IF 1 \in DOMAIN teams THEN teams[1] ELSE ""
        away == IF 2 \in DOMAIN teams THEN teams[2] ELSE ""
        scores == apiMatch.score
        HomeSc(s) == home = "" \/ s.team = home \/ s.num = 1
        AwaySc(s) == away = "" \/ s.team = away \/ s.num = 2
        homeScore == FindOr(scores, HomeSc, 1, EmptyInning)
        awayScore == FindOr(scores, AwaySc, 2, EmptyInning)
    IN  [matchId |-> apiMatch.id,
         series |-> IF apiMatch.series # "" THEN apiMatch.series ELSE "Unknown Series",
         teams |-> [home |-> [id |-> home, name |-> IF home # "" THEN home ELSE "Team 1"],
                    away |-> [id |-> away, name |-> IF away # "" THEN away ELSE "Team 2"]],
         venue |-> [name |-> IF apiMatch.venue # "" THEN apiMatch.venue ELSE "Unknown Venue"],
         status |-> CricketDataStatus(apiMatch),
         format |-> CricketDataFormat(apiMatch.matchType),
         startTime |-> IF apiMatch.dateTimeGMT # "" THEN NewDate(apiMatch.dateTimeGMT)
                       ELSE NewDate("now")]
        @@ (IF Len(scores) > 0
            THEN [currentScore |-> [home |-> [runs |-> homeScore.r, wickets |-> homeScore.w],
                                    away |-> [runs |-> awayScore.r, wickets |-> awayScore.w]]]
            ELSE Absent)

transformApiMatchToFrontend(apiMatch) ==
    LET transformed == transformApiMatchToDbSchema(apiMatch)
    IN  (IF apiMatch.id # "" THEN [_id |-> apiMatch.id] ELSE Absent)
        @@ [name |-> IF apiMatch.name # "" THEN apiMatch.name
                     ELSE transformed.teams.home.name \o " vs " \o transformed.teams.away.name,
            matchStarted |-> apiMatch.matchStarted,
            matchEnded |-> apiMatch.matchEnded]
        @@ transformed

MapCricketData(apiMatches) ==
    [i \in DOMAIN apiMatches |-> transformApiMatchToFrontend(apiMatches[i])]

(***************************************************************************)
(* Upstream payloads                                                       *)
(***************************************************************************)
Participant(i, n) == [id |-> i, name |-> n, location |-> ""]
ScoreOf(n, pid) == [score |-> n, scoreboard |-> "", participant_id |-> pid, wickets |-> 2]

SmLive == [id |-> 11, name |-> "", state_id |-> 3, type_id |-> 3, starting_at |-> "inplay",
           league |-> "Ashes", venue |-> "",
           participants |-> <<Participant(1, "India"), Participant(2, "Australia")>>,
           scores |-> <<ScoreOf(120, 1), ScoreOf(95, 2)>>]
SmUpcoming == [id |-> 12, name |-> "Final", state_id |-> 1, type_id |-> 1, starting_at |-> "future",
               league |-> "", venue |-> "Lords",
               participants |-> <<Participant(1, "India"), Participant(3, "England")>>,
               scores |-> <<>>]
SmFinished == [id |-> 13, name |-> "", state_id |-> 5, type_id |-> 2, starting_at |-> "past",
               league |-> "Ashes", venue |-> "",
               participants |-> <<Participant(2, "Australia"), Participant(3, "England")>>,
               scores |-> <<ScoreOf(250, 2), ScoreOf(251, 3)>>]

\* bodies of response.data.data for the list endpoints of SportsMonks
SportsMonksLists == {<<>>, <<SmLive>>, <<SmUpcoming, SmFinished>>, <<NullMatch>>}
\* body of /fixtures/:id
SportsMonksDetails == {SmLive, NoData}
\* body of /commentaries/fixtures/:id
SportsMonksCommentaries == {<<>>, <<[comment |-> "four runs"]>>}

CdLive == [id |-> "cd-1", name |-> "", matchStarted |-> TRUE, matchEnded |-> FALSE,
           status |-> "live", teams |-> <<"India", "Australia">>, series |-> "",
           venue |-> "Eden Gardens", matchType |-> "odi", dateTimeGMT |-> "inplay",
           score |-> <<[r |-> 120, w |-> 3, team |-> "India", num |-> 1]>>]
CdEnded == [id |-> "cd-2", name |-> "", matchStarted |-> TRUE, matchEnded |-> TRUE,
            status |-> "won", teams |-> <<"England", "Australia">>, series |-> "",
            venue |-> "", matchType |-> "t20", dateTimeGMT |-> "past",
            score |-> <<>>]

\* bodies of response.data of the Cricket Data API
CricketDataBodies ==
    {[status |-> "success", data |-> d] : d \in {<<>>, <<CdLive, CdEnded>>}}
    \cup {[status |-> "failure", data |-> <<>>]}

\* HTTP status of a failed call; 0 is a call without a response (timeout, connection error)
ErrorStatuses == {403, 404, 500, 0}

\* rows of the snapshot store
DbLive == [_id |-> "db-1", matchId |-> "db-1", status |-> "live", startTime |-> NewDate("inplay")]
DbRows == {<<>>, <<DbLive>>}

(***************************************************************************)
(* RedisClient                                                             *)
(***************************************************************************)
NoValue == [nil |-> TRUE]
RedisOutcomes == {"ok", "error"}

\* the string stored under a key, or NoValue; Redis drops a key when its
\* time to live has run out
StoredValue(key) ==
    IF key \in DOMAIN cache THEN cache[key].val ELSE NoValue

\* RedisClient.get: JSON.parse of the stored string; null when there is none,
\* when it is empty, or when the command fails
RedisGet(key, outcome) ==
    IF outcome = "error" THEN NoValue
    ELSE IF StoredValue(key) = NoValue \/ StoredValue(key) = NoData THEN NoValue
    ELSE JSONParse(StoredValue(key))

\* RedisClient.set with a ttl: SETEX of JSON.stringify(value)
\* left is the time the key has left to live; age and out record, next to
\* the entry, how long ago its data left the upstream and the response its
\* writer sent
\* SET ... NX: a key that holds a value keeps it
RedisSetIfAbsent(key, value, ttl, age, out) ==
    IF key \in DOMAIN cache THEN cache
    ELSE (key :> [val |-> StringifyOptional(value), left |-> ttl, ttl |-> ttl,
                  age |-> age, out |-> out]) @@ cache
RedisSet(key, value, ttl, age, out) ==
    (key :> [val |-> StringifyOptional(value), left |-> ttl, ttl |-> ttl,
             age |-> age, out |-> out]) @@ cache

\* d seconds later: keys whose time to live has run out are gone
Expire(d) ==
    [key \in {k \in DOMAIN cache : cache[k].left > d} |->
        [cache[key] EXCEPT !.left = @ - d, !.age = @ + d]]

(***************************************************************************)
(* Requests                                                                *)
(***************************************************************************)
Handlers == {"cricketLive", "footballLive", "cricketFixtures", "cricketResults",
             "cricketDetail", "cricketCommentary"}

Sport(h) == IF h = "footballLive" THEN "football" ELSE "cricket"

\* req.query in the order the client sent it; every value is a string
Queries == {<<>>, << <<"format", "test">> >>}
MatchIds == {"11"}

\* req.query[name], "" when the parameter is absent
QueryParam(q, name) ==
    IF \E i \in DOMAIN q : q[i][1] = name
    THEN q[CHOOSE i \in DOMAIN q : q[i][1] = name][2]
    ELSE ""

\* Number(x) for the digit strings the requests carry
NumberOf(str) == CASE str = "1" -> 1 [] str = "2" -> 2 [] str = "20" -> 20

PageOf(q) == IF QueryParam(q, "page") = "" THEN 1 ELSE NumberOf(QueryParam(q, "page"))
LimitOf(q) == IF QueryParam(q, "limit") = "" THEN 20 ELSE NumberOf(QueryParam(q, "limit"))

\* the controller's cache key
CacheKeyNoQuery(h, q, id) ==
    CASE h = "cricketLive" -> [k |-> "live_cricket_matches"]
      [] h = "footballLive" -> [k |-> "live_football_matches"]
      [] h = "cricketFixtures" -> [k |-> "cricket_fixtures"]
      [] h = "cricketResults" -> [k |-> "cricket_results"]
      [] h = "cricketDetail" -> [k |-> "cricket_match", id |-> id]
      [] h = "cricketCommentary" -> [k |-> "cricket_commentary", id |-> id]
CacheKey(h, q, id) ==
    CASE h = "cricketLive" -> [k |-> "live_cricket_matches"]
      [] h = "footballLive" -> [k |-> "live_football_matches"]
      [] h = "cricketFixtures" -> [k |-> "cricket_fixtures", query |-> q]
      [] h = "cricketResults" -> [k |-> "cricket_results", query |-> q]
      [] h = "cricketDetail" -> [k |-> "cricket_match", id |-> id]
      [] h = "cricketCommentary" -> [k |-> "cricket_commentary", id |-> id]

\* the cache key of the SportsMonks client method the handler calls
SportsMonksKey(h, id) ==
    CASE h \in {"cricketLive", "footballLive"} -> [k |-> "sportsmonks:live_matches", sport |-> Sport(h)]
      [] h = "cricketFixtures" -> [k |-> "sportsmonks:upcoming_matches", sport |-> Sport(h)]
      [] h = "cricketResults" -> [k |-> "sportsmonks:completed_matches", sport |-> Sport(h)]
      [] h = "cricketDetail" -> [k |-> "sportsmonks:match", sport |-> Sport(h), id |-> id]
      [] h = "cricketCommentary" -> [k |-> "sportsmonks:commentary", sport |-> Sport(h), id |-> id]

CricketApiLiveKey == [k |-> "cricket_api:live_matches"]

ControllerKeys ==
    {CacheKey(h, q, id) : h \in Handlers, q \in Queries, id \in MatchIds}

\* cacheDuration of each controller
LiveCacheDurationFlat(e) == 30
LiveCacheDuration(e) == IF e = "production" THEN 900 ELSE 30
FixturesCacheDuration(e) == IF e = "production" THEN 900 ELSE 300
ResultsCacheDuration(e) == IF e = "production" THEN 3600 ELSE 900
DetailCacheDuration == 60
CommentaryCacheDuration == 30

CacheDuration(h, e) ==
    CASE h \in {"cricketLive", "footballLive"} -> LiveCacheDuration(e)
      [] h = "cricketFixtures" -> FixturesCacheDuration(e)
      [] h = "cricketResults" -> ResultsCacheDuration(e)
      [] h = "cricketDetail" -> DetailCacheDuration
      [] h = "cricketCommentary" -> CommentaryCacheDuration

\* cacheDuration of each SportsMonks client method
SportsMonksCacheDuration(h, e) ==
    CASE h \in {"cricketLive", "footballLive"} -> IF e = "production" THEN 900 ELSE 30
      [] h = "cricketFixtures" -> IF e = "production" THEN 300 ELSE 30
      [] h = "cricketResults" -> 3600
      [] h = "cricketDetail" -> 60
      [] h = "cricketCommentary" -> 30

CricketApiCacheDuration(e) == IF e = "production" THEN 900 ELSE 30

(***************************************************************************)
(* Controllers: the synchronous work between the provider call and the     *)
(* cache write                                                             *)
(***************************************************************************)
CeilDiv(a, b) == (a + b - 1) \div b

\* filteredMatches.sort by start time; Array.prototype.sort is stable
RECURSIVE InsertByStart(_, _, _)
InsertByStart(m, s, ascending) ==
    IF s = <<>> THEN <<m>>
    ELSE LET a == DateRank(DateOf(m.startTime))
             b == DateRank(DateOf(Head(s).startTime))
         IN  IF (ascending /\ a < b) \/ (~ascending /\ a > b)
             THEN <<m>> \o s
             ELSE <<Head(s)>> \o InsertByStart(m, Tail(s), ascending)

RECURSIVE SortByStart(_, _)
SortByStart(s, ascending) ==
    IF s = <<>> THEN <<>>
    ELSE LET n == Len(s)
         IN  InsertByStart(s[n], SortByStart(SubSeq(s, 1, n - 1), ascending), ascending)

\* slice(skip, skip + limit)
Slice(s, from, to) == SubSeq(s, from + 1, IF to < Len(s) THEN to ELSE Len(s))

Pagination(q, total) ==
    [current |-> PageOf(q), pages |-> CeilDiv(total, LimitOf(q)),
     total |-> total, limit |-> LimitOf(q)]

IsLive(m) == m.status = "live"
IsUpcoming(m) ==
    m.status = "upcoming"
    \/ (~m.matchStarted /\ ~m.matchEnded /\ DateRank(DateOf(m.startTime)) > DateRank("now"))
IsCompleted(m) == m.status = "completed" \/ m.matchEnded
IsLiveCricketData(m) == m.status = "live" \/ (m.matchStarted /\ ~m.matchEnded)

\* the format filter of the fixtures and results handlers
FilterFormat(s, q) ==
    LET HasFormat(m) == m.format = QueryParam(q, "format")
    IN  IF QueryParam(q, "format") # "" THEN SelectSeq(s, HasFormat) ELSE s

PageOfMatches(field, sorted, q) ==
    LET skip == (PageOf(q) - 1) * LimitOf(q)
    IN  (field :> Slice(sorted, skip, skip + LimitOf(q)))
        @@ [pagination |-> Pagination(q, Len(sorted))]

\* the value a handler computes from what the SportsMonks client returned
ControllerResult(h, q, raw) ==
    CASE h \in {"cricketLive", "footballLive"} ->
            SelectSeq(MapSportsMonks(raw, Sport(h)), IsLive)
      [] h = "cricketFixtures" ->
            PageOfMatches("fixtures",
                SortByStart(FilterFormat(SelectSeq(MapSportsMonks(raw, "cricket"), IsUpcoming), q), TRUE), q)
      [] h = "cricketResults" ->
            PageOfMatches("results",
                SortByStart(FilterFormat(SelectSeq(MapSportsMonks(raw, "cricket"), IsCompleted), q), FALSE), q)
      [] h = "cricketDetail" -> transformSportsMonksMatchToFrontend(raw, "cricket")
      [] h = "cricketCommentary" -> raw

\* the transformation throws a TypeError
ControllerThrows(h, raw) ==
    CASE h = "cricketDetail" -> raw = NoData \/ raw = NullMatch
      [] h = "cricketCommentary" -> FALSE
      [] OTHER -> TransformThrows(raw)

\* getLiveCricketMatches, secondary branch
CricketDataResult(raw) == SelectSeq(MapCricketData(raw), IsLiveCricketData)

\* JSON.stringify of a handler's data
StringifyData(h, d) ==
    CASE h \in {"cricketLive", "footballLive"} -> StringifyMatches(d)
      [] h = "cricketFixtures" -> StringifyPage("fixtures", d)
      [] h = "cricketResults" -> StringifyPage("results", d)
      [] h = "cricketDetail" -> StringifyMatch(d)
      [] h = "cricketCommentary" -> d

\* the filters of the SportsMonks client methods
IsInPlayFixture(m) ==
    m.state_id = 3 \/ (m.starting_at # "" /\ m.starting_at = "inplay" /\ m.state_id # 5)
IsUpcomingFixture(m) ==
    m.starting_at # "" /\ DateRank(m.starting_at) > DateRank("now")
    /\ (m.state_id = 1 \/ m.state_id = 2)
IsFinishedFixture(m) == m.state_id = 5

(***************************************************************************)
(* Errors and responses                                                    *)
(***************************************************************************)
\* status is error.response?.status, 0 when the error carries no response
Err(status, message) == [status |-> status, message |-> message]
NoErr == Err(-1, "")

AxiosError(status) ==
    IF status = 0 THEN Err(0, "timeout of 10000ms exceeded")
    ELSE Err(status, "Request failed with status code " \o ToString(status))

RedisError == Err(0, "Command timed out")
TypeError == Err(0, "Cannot read properties of null")

DbErrors == {[name |-> "MongoNetworkError", message |-> "connection closed"],
             [name |-> "CastError", message |-> "Cast to ObjectId failed"]}

\* errorHandler middleware
errorHandler(error, e) ==
    LET statusCode == IF error.name \in {"ValidationError", "CastError"} THEN 400
                      ELSE IF error.name \in {"JsonWebTokenError", "TokenExpiredError"} THEN 401
                      ELSE 500
        named == CASE error.name = "ValidationError" -> "Validation Error"
                   [] error.name = "CastError" -> "Invalid ID format"
                   [] error.name = "JsonWebTokenError" -> "Invalid token"
                   [] error.name = "TokenExpiredError" -> "Token expired"
                   [] OTHER -> error.message
        message == IF e = "production" THEN "Something went wrong!" ELSE named
    IN  [status |-> statusCode,
         body |-> [success |-> FALSE,
                   error |-> [message |-> message]
                             @@ (IF e = "development" THEN [stack |-> error.name] ELSE Absent)]]

FallbackWarningNone(h) == ""
FallbackWarning(h) ==
    CASE h = "cricketLive" -> "Using database fallback - APIs unavailable"
      [] h = "footballLive" -> "Using database fallback - SportsMonks API unavailable"
      [] h \in {"cricketFixtures", "cricketResults"} -> "API unavailable - using database fallback"
      [] h = "cricketDetail" -> "Using database fallback - API unavailable"
      [] h = "cricketCommentary" -> "Commentary unavailable - API error"

(***************************************************************************)
(* Request state                                                           *)
(***************************************************************************)
\* pc: the await the request is suspended at.  The fields from age on record
\* what the request has done so far: the age of the data it holds, the tiers
\* it entered, its upstream calls, how each provider client ended and the
\* error the primary one threw, what the database read gave, the response
\* stored under its cache key when it looked, and the response it sent.
IdleReq ==
    [pc |-> "idle", h |-> "", q |-> <<>>, id |-> "",
     raw |-> <<>>, inplay |-> -1, err |-> NoErr,
     result |-> <<>>, source |-> "", age |-> 0,
     trace |-> <<>>, http |-> <<>>, primary |-> "", secondary |-> "",
     perr |-> NoErr, db |-> "",
     hit |-> [status |-> 0],
     resp |-> [status |-> 0]]

NoCalc == [op |-> "none", done |-> FALSE]

\* the collections before any forum request
NoDb == [threads |-> <<>>, votes |-> {}, comments |-> <<>>]

Init ==
    /\ env \in Envs
    /\ apiToken \in BOOLEAN
    /\ ticks = 0
    /\ cache = <<>>
    /\ started = 0
    /\ req = [r \in Reqs |-> IdleReq]
    /\ calc = NoCalc
    /\ db = NoDb

\* res.json called a second time for the same request
RespondTwice(rq, status, body) ==
    [rq EXCEPT !.pc = "done",
               !.resp = [status |-> status, body |-> body],
               !.trace = @ \o <<"RESPOND", "RESPOND">>]
\* res.status(status).json(body)
Respond(rq, status, body) ==
    [rq EXCEPT !.pc = "done",
               !.resp = [status |-> status, body |-> body],
               !.trace = Append(@, "RESPOND")]

\* the catch block that ends in the database fallback; the commentary
\* handler answers from its catch block without a database read
FallbackSilent(rq, error) ==
    Respond([rq EXCEPT !.err = error], 200, [success |-> TRUE, data |-> <<>>])
Fallback(rq, error) ==
    IF rq.h = "cricketCommentary"
    THEN Respond([rq EXCEPT !.err = error], 200,
                 [success |-> TRUE, data |-> <<>>, warning |-> FallbackWarning(rq.h)])
    ELSE [rq EXCEPT !.pc = "dbRead", !.err = error,
                    !.trace = Append(@, "SNAPSHOT_FALLBACK")]

\* catch (sportsmonksError) of getLiveCricketMatches: a 403 goes to the
\* Cricket Data API, anything else is re-thrown to the outer catch; the
\* other handlers have the outer catch only
CatchPrimaryNoSecondary(rq, error) == Fallback(rq, error)
CatchPrimary(rq, error) ==
    IF rq.h = "cricketLive" /\ error.status = 403
    THEN [rq EXCEPT !.pc = "secGet", !.err = error,
                    !.trace = Append(@, "SECONDARY_FETCH"),
                    !.secondary = "called"]
    ELSE Fallback(rq, error)

\* a provider call that never settles: the request stays at its await
PrimaryFailedPending(rq, error) ==
    [rq EXCEPT !.pc = "pending", !.primary = "called"]
\* the SportsMonks client method threw
PrimaryFailed(rq, error) ==
    CatchPrimary([rq EXCEPT !.primary = "failed", !.perr = error], error)

\* the SportsMonks client method returned raw: transform, filter, then
\* await redisClient.set
PrimaryReturned(rq, raw, age) ==
    IF ControllerThrows(rq.h, raw)
    THEN PrimaryFailed(rq, TypeError)
    ELSE [rq EXCEPT !.pc = "ctlSet", !.raw = raw, !.age = age, !.primary = "ok",
                    !.result = ControllerResult(rq.h, rq.q, raw)]

\* cricketApiService.getLiveMatches threw; its catch wraps every error
SecondaryFailed(rq) ==
    Fallback([rq EXCEPT !.secondary = "failed"],
             Err(0, "Failed to fetch live cricket matches"))

SecondaryReturned(rq, raw, age) ==
    [rq EXCEPT !.pc = "ctlSet", !.raw = raw, !.age = age, !.secondary = "ok",
               !.source = "cricket_data_api",
               !.result = CricketDataResult(raw)]

(***************************************************************************)
(* Steps                                                                   *)
(***************************************************************************)
\* a request arrives at one of the read handlers
Start(r) ==
    /\ req[r].pc = "idle"
    /\ started < MaxRequests
    /\ started' = started + 1
    /\ \E h \in Handlers, q \in Queries, id \in MatchIds :
          /\ IF h \in {"cricketFixtures", "cricketResults"} THEN TRUE ELSE q = <<>>
          /\ req' = [req EXCEPT ![r] = [IdleReq EXCEPT !.pc = "ctlGet", !.h = h, !.q = q,
                          !.id = IF h \in {"cricketDetail", "cricketCommentary"} THEN id ELSE ""]]
    /\ UNCHANGED <<db, calc, env, apiToken, ticks, cache>>

\* the response has been sent and the request is over
Finish(r) ==
    /\ req[r].pc = "done"
    /\ req' = [req EXCEPT ![r] = IdleReq]
    /\ UNCHANGED <<db, calc, env, apiToken, ticks, cache, started>>

\* await redisClient.get(cacheKey) in the handler, then either the cached
\* response or the call of the SportsMonks client
CtlCacheGet(r) ==
    LET rq == req[r]
        key == CacheKey(rq.h, rq.q, rq.id)
    IN  /\ rq.pc = "ctlGet"
        /\ \E outcome \in RedisOutcomes :
              LET cachedData == RedisGet(key, outcome)
                  checked == [rq EXCEPT !.trace = Append(@, "CACHE_CHECK"),
                                        !.hit = IF key \in DOMAIN cache THEN cache[key].out
                                                ELSE [status |-> 0]]
              IN  req' = [req EXCEPT ![r] =
                    IF cachedData # NoValue
                    THEN Respond([checked EXCEPT !.age = cache[key].age], 200,
                                 [success |-> TRUE,
                                  data |-> StringifyData(rq.h, JSONParse(cachedData))])
                    ELSE [checked EXCEPT !.pc = "svcGet", !.primary = "called",
                                         !.trace = Append(@, "PRIMARY_FETCH")]]
        /\ UNCHANGED <<db, calc, env, apiToken, ticks, cache, started>>

\* await redisClient.get(cacheKey) in the SportsMonks client method
SvcCacheGet(r) ==
    LET rq == req[r]
        key == SportsMonksKey(rq.h, rq.id)
    IN  /\ rq.pc = "svcGet"
        /\ \E outcome \in RedisOutcomes :
              LET cachedData == RedisGet(key, outcome)
              IN  req' = [req EXCEPT ![r] =
                    IF cachedData # NoValue
                    THEN PrimaryReturned(rq, JSONParse(cachedData), cache[key].age)
                    ELSE IF rq.h \in {"cricketLive", "footballLive"} /\ ~apiToken
                    THEN PrimaryFailed(rq, Err(0, "SPORTMONKS_API_TOKEN is not configured"))
                    ELSE [rq EXCEPT !.pc = "svcHttp"]]
        /\ UNCHANGED <<db, calc, env, apiToken, ticks, cache, started>>

\* what an upstream call can answer: a body, or an error status
Answers(bodies) ==
    {[ok |-> TRUE, status |-> 200, body |-> b] : b \in bodies}
    \cup {[ok |-> FALSE, status |-> st, body |-> NoData] : st \in ErrorStatuses}

SportsMonksBodies(h) ==
    CASE h = "cricketDetail" -> SportsMonksDetails
      [] h = "cricketCommentary" -> SportsMonksCommentaries
      [] OTHER -> SportsMonksLists

\* an upstream call and its answer; empty: a 200 whose list of matches is empty
Called(rq, provider, answer, empty) ==
    [rq EXCEPT !.http = Append(@, [provider |-> provider, status |-> answer.status,
                                   empty |-> empty])]

\* await client.get(...) of the SportsMonks client method: /livescores/inplay
\* for the live handlers, /fixtures, /fixtures/:id or /commentaries otherwise
SvcHttp(r) ==
    /\ req[r].pc = "svcHttp"
    /\ \E answer \in Answers(SportsMonksBodies(req[r].h)) :
          LET rq == Called(req[r], "sportsmonks", answer, answer.ok /\ answer.body = <<>>)
              data == answer.body
          IN  req' = [req EXCEPT ![r] =
                IF ~answer.ok THEN
                    IF rq.h \in {"cricketLive", "footballLive"} /\ answer.status \in {404, 403}
                    THEN [rq EXCEPT !.pc = "svcHttp2", !.inplay = answer.status]
                    ELSE PrimaryFailed(rq, AxiosError(answer.status))
                ELSE IF rq.h \in {"cricketLive", "footballLive"} THEN
                    IF Len(data) > 0
                    THEN [rq EXCEPT !.pc = "svcSet", !.raw = data, !.age = 0]
                    ELSE PrimaryReturned(rq, <<>>, 0)
                ELSE IF rq.h \in {"cricketFixtures", "cricketResults"} THEN
                    IF TransformThrows(data)
                    THEN PrimaryFailed(rq, TypeError)
                    ELSE [rq EXCEPT !.pc = "svcSet", !.age = 0,
                                    !.raw = IF rq.h = "cricketFixtures"
                                            THEN SelectSeq(data, IsUpcomingFixture)
                                            ELSE SelectSeq(data, IsFinishedFixture)]
                ELSE [rq EXCEPT !.pc = "svcSet", !.raw = data, !.age = 0]]
    /\ UNCHANGED <<db, calc, env, apiToken, ticks, cache, started>>

\* getLiveMatches after a 404/403 of /livescores/inplay: await
\* client.get('/fixtures'); without live fixtures the inplay error is thrown
SvcHttpFixtures(r) ==
    /\ req[r].pc = "svcHttp2"
    /\ \E answer \in Answers(SportsMonksLists) :
          LET rq == Called(req[r], "sportsmonks", answer, answer.ok /\ answer.body = <<>>)
              allFixtures == answer.body
          IN  req' = [req EXCEPT ![r] =
                IF answer.ok /\ ~TransformThrows(allFixtures)
                             /\ Len(SelectSeq(allFixtures, IsInPlayFixture)) > 0
                THEN [rq EXCEPT !.pc = "svcSet", !.age = 0,
                                !.raw = SelectSeq(allFixtures, IsInPlayFixture)]
                ELSE PrimaryFailed(rq, AxiosError(rq.inplay))]
    /\ UNCHANGED <<db, calc, env, apiToken, ticks, cache, started>>

\* await redisClient.set(cacheKey, JSON.stringify(matches), cacheDuration)
\* of the SportsMonks client method, then its return
SvcCacheSet(r) ==
    LET rq == req[r]
        key == SportsMonksKey(rq.h, rq.id)
    IN  /\ rq.pc = "svcSet"
        /\ \E outcome \in RedisOutcomes :
              IF outcome = "ok"
              THEN /\ cache' = RedisSet(key,
                                        IF rq.h = "cricketDetail" THEN StringifyOptional(rq.raw)
                                        ELSE JSONStringify(rq.raw),
                                        SportsMonksCacheDuration(rq.h, env), rq.age, [status |-> 0])
                   /\ req' = [req EXCEPT ![r] = PrimaryReturned(rq, rq.raw, rq.age)]
              ELSE /\ cache' = cache
                   /\ req' = [req EXCEPT ![r] =
                         IF rq.inplay # -1
                         THEN PrimaryFailed(rq, AxiosError(rq.inplay))
                         ELSE PrimaryFailed(rq, RedisError)]
        /\ UNCHANGED <<db, calc, env, apiToken, ticks, started>>

\* await redisClient.get(cacheKey) in cricketApiService.getLiveMatches
SecCacheGet(r) ==
    LET rq == req[r]
    IN  /\ rq.pc = "secGet"
        /\ \E outcome \in RedisOutcomes :
              LET cachedData == RedisGet(CricketApiLiveKey, outcome)
              IN  req' = [req EXCEPT ![r] =
                    IF cachedData # NoValue
                    THEN SecondaryReturned(rq, JSONParse(cachedData), cache[CricketApiLiveKey].age)
                    ELSE [rq EXCEPT !.pc = "secHttp"]]
        /\ UNCHANGED <<db, calc, env, apiToken, ticks, cache, started>>

\* await this.client.get('/matches', {status: 'live'})
SecHttp(r) ==
    /\ req[r].pc = "secHttp"
    /\ \E answer \in Answers(CricketDataBodies) :
          LET rq == Called(req[r], "cricket_data_api", answer,
                           answer.ok /\ answer.body.status = "success"
                                     /\ answer.body.data = <<>>)
          IN  req' = [req EXCEPT ![r] =
                IF answer.ok /\ answer.body.status = "success"
                THEN [rq EXCEPT !.pc = "secSet", !.raw = answer.body.data, !.age = 0]
                ELSE SecondaryFailed(rq)]
    /\ UNCHANGED <<db, calc, env, apiToken, ticks, cache, started>>

\* await redisClient.set(...) in cricketApiService.getLiveMatches, then its return
SecCacheSet(r) ==
    LET rq == req[r]
    IN  /\ rq.pc = "secSet"
        /\ \E outcome \in RedisOutcomes :
              IF outcome = "ok"
              THEN /\ cache' = RedisSet(CricketApiLiveKey, JSONStringify(rq.raw),
                                        CricketApiCacheDuration(env), rq.age, [status |-> 0])
                   /\ req' = [req EXCEPT ![r] = SecondaryReturned(rq, rq.raw, rq.age)]
              ELSE /\ cache' = cache
                   /\ req' = [req EXCEPT ![r] = SecondaryFailed(rq)]
        /\ UNCHANGED <<db, calc, env, apiToken, ticks, started>>

\* await redisClient.set(cacheKey, JSON.stringify(result), cacheDuration) in
\* the handler, then res.json; a failed write is thrown into the catch blocks
CtlCacheSet(r) ==
    LET rq == req[r]
        key == CacheKey(rq.h, rq.q, rq.id)
        data == StringifyData(rq.h, rq.result)
        sent == Respond(rq, 200,
                        [success |-> TRUE, data |-> data]
                        @@ (IF rq.source # "" THEN [source |-> rq.source] ELSE Absent))
    IN  /\ rq.pc = "ctlSet"
        /\ \E outcome \in RedisOutcomes :
              IF outcome = "ok"
              THEN /\ cache' = RedisSet(key, JSONStringify(data),
                                        CacheDuration(rq.h, env), rq.age, sent.resp)
                   /\ req' = [req EXCEPT ![r] = sent]
              ELSE /\ cache' = cache
                   /\ req' = [req EXCEPT ![r] =
                         IF rq.source = "" THEN CatchPrimary(rq, RedisError)
                         ELSE Fallback(rq, RedisError)]
        /\ UNCHANGED <<db, calc, env, apiToken, ticks, started>>

\* data of the database fallback
DbData(h, q, rows) ==
    CASE h \in {"cricketLive", "footballLive"} -> rows
      [] h = "cricketFixtures" -> [fixtures |-> rows, pagination |-> Pagination(q, Len(rows))]
      [] h = "cricketResults" -> [results |-> rows, pagination |-> Pagination(q, Len(rows))]
      [] h = "cricketDetail" -> rows[1]

\* the database read of the catch block with its result stored under the
\* request's key
SnapshotReadCached(r) ==
    LET rq == req[r]
    IN  /\ rq.pc = "dbRead"
        /\ \E rows \in DbRows :
              LET sent == Respond([rq EXCEPT !.db = IF rows = <<>> THEN "empty" ELSE "rows"], 200,
                                  [success |-> TRUE, data |-> rows,
                                   warning |-> FallbackWarning(rq.h)])
              IN  /\ req' = [req EXCEPT ![r] = sent]
                  /\ cache' = RedisSet(CacheKey(rq.h, rq.q, rq.id), JSONStringify(rows),
                                       CacheDuration(rq.h, env), 0, sent.resp)
        /\ UNCHANGED <<db, calc, env, apiToken, ticks, started>>

\* the database read of the catch block, then res.json; a rejected read
\* leaves the handler and reaches errorHandler through asyncHandler
SnapshotRead(r) ==
    LET rq == req[r]
    IN  /\ rq.pc = "dbRead"
        /\ \/ \E rows \in DbRows :
                req' = [req EXCEPT ![r] =
                  IF rq.h = "cricketDetail" /\ rows = <<>>
                  THEN Respond([rq EXCEPT !.db = "empty"], 404,
                               [success |-> FALSE, message |-> "Cricket match not found"])
                  ELSE Respond([rq EXCEPT !.db = IF rows = <<>> THEN "empty" ELSE "rows"], 200,
                        [success |-> TRUE,
                         data |-> StringifyData(rq.h, DbData(rq.h, rq.q, rows)),
                         warning |-> FallbackWarning(rq.h)]
                        @@ (IF env = "development"
                               /\ rq.h \in {"cricketLive", "footballLive", "cricketFixtures"}
                            THEN [error |-> rq.err.message] ELSE Absent))]
           \/ \E error \in DbErrors :
                req' = [req EXCEPT ![r] =
                  Respond([rq EXCEPT !.db = "rejected"],
                          errorHandler(error, env).status, errorHandler(error, env).body)]
        /\ UNCHANGED <<db, calc, env, apiToken, ticks, cache, started>>

\* time passes
Tick ==
    /\ ticks < MaxTicks
    /\ started < MaxRequests
    /\ \A r \in Reqs : req[r].pc = "idle"
    /\ started > 0
    /\ \E d \in TickSteps : cache' = Expire(d)
    /\ ticks' = ticks + 1
    /\ UNCHANGED <<db, calc, env, apiToken, started, req>>

Next ==
    \/ \E r \in Reqs : Start(r)
    \/ \E r \in Reqs : CtlCacheGet(r)
    \/ \E r \in Reqs : SvcCacheGet(r)
    \/ \E r \in Reqs : SvcHttp(r)
    \/ \E r \in Reqs : SvcHttpFixtures(r)
    \/ \E r \in Reqs : SvcCacheSet(r)
    \/ \E r \in Reqs : SecCacheGet(r)
    \/ \E r \in Reqs : SecHttp(r)
    \/ \E r \in Reqs : SecCacheSet(r)
    \/ \E r \in Reqs : CtlCacheSet(r)
    \/ \E r \in Reqs : SnapshotRead(r)
    \/ \E r \in Reqs : Finish(r)
    \/ Tick

Spec == Init /\ [][Next]_vars

\* the step request r is suspended at.  Every await of a read handler ends:
\* axios gives up after timeout 10000, ioredis after commandTimeout 5000 and
\* the MongoDB driver after serverSelectionTimeoutMS 5000, each by rejecting
Step(r) ==
    \/ CtlCacheGet(r)
    \/ SvcCacheGet(r)
    \/ SvcHttp(r)
    \/ SvcHttpFixtures(r)
    \/ SvcCacheSet(r)
    \/ SecCacheGet(r)
    \/ SecHttp(r)
    \/ SecCacheSet(r)
    \/ CtlCacheSet(r)
    \/ SnapshotRead(r)

SpecLive == Init /\ [][Next]_vars /\ \A r \in Reqs : WF_vars(Step(r))

TypeOK ==
    /\ env \in Envs
    /\ \A r \in Reqs : req[r].pc \in {"idle", "ctlGet", "svcGet", "svcHttp", "svcHttp2", "svcSet",
                                       "secGet", "secHttp", "secSet", "ctlSet", "dbRead", "done"}

(***************************************************************************)
(* The normalizers and the cache-key expression on their own: one call on  *)
(* one input                                                               *)
(***************************************************************************)
\* state_id of a fixture; 0: the fixture has none
StateIds == 0..6

\* participants and scores of a fixture, with and without identifiers
SmParticipants ==
    {<<>>,
     <<Participant(0, "India"), Participant(0, "Australia")>>,
     <<Participant(1, "India"), Participant(2, "Australia")>>,
     <<[id |-> 2, name |-> "Australia", location |-> "away"],
       [id |-> 1, name |-> "India", location |-> "home"]>>}
SmScores ==
    {<<>>,
     <<ScoreOf(120, 0), ScoreOf(95, 0)>>,
     <<ScoreOf(120, 1), ScoreOf(95, 2)>>,
     <<ScoreOf(95, 2), ScoreOf(120, 1)>>}

SportsMonksMatches ==
    {[id |-> i, name |-> "", state_id |-> st, type_id |-> 3, starting_at |-> "inplay",
      league |-> "", venue |-> "", participants |-> p, scores |-> sc] :
        i \in {0, 11}, st \in StateIds, p \in SmParticipants, sc \in SmScores}

CricketDataMatches ==
    {[id |-> i, name |-> "", matchStarted |-> st, matchEnded |-> en, status |-> t,
      teams |-> tm, series |-> "", venue |-> "", matchType |-> "odi",
      dateTimeGMT |-> "inplay", score |-> sc] :
        i \in {"", "cd-1"}, st \in BOOLEAN, en \in BOOLEAN,
        t \in {"", "live", "won", "not started"},
        tm \in {<<>>, <<"India", "Australia">>},
        sc \in {<<>>, <<[r |-> 120, w |-> 3, team |-> "India", num |-> 1]>>}}

\* req.query of a fixtures or results request, in the order the client sent it
KeyQueries ==
    LET f == <<"format", "test">>
        p == <<"page", "2">>
    IN  {<<>>, <<f>>, <<p>>, <<f, p>>, <<p, f>>}

InitPure ==
    /\ env = "production"
    /\ apiToken = TRUE
    /\ ticks = 0
    /\ cache = <<>>
    /\ started = 0
    /\ req = [r \in Reqs |-> IdleReq]
    /\ db = NoDb
    /\ calc \in {[op |-> "sportsmonks", done |-> FALSE, input |-> m, sport |-> sp] :
                    m \in SportsMonksMatches \cup {NullMatch}, sp \in {"cricket", "football"}}
           \cup {[op |-> "cricket_data", done |-> FALSE, input |-> m] :
                    m \in CricketDataMatches \cup {NullMatch}}
           \cup {[op |-> "key", done |-> FALSE, h |-> h, q1 |-> q1, q2 |-> q2] :
                    h \in {"cricketFixtures", "cricketResults"},
                    q1 \in KeyQueries, q2 \in KeyQueries}

\* transformSportsMonksMatchToFrontend(match, sport), as the handlers call it
NormalizeSportsMonks ==
    /\ calc.op = "sportsmonks" /\ ~calc.done
    /\ calc' = [op |-> calc.op, done |-> TRUE, input |-> calc.input, sport |-> calc.sport,
                threw |-> TransformThrows(<<calc.input>>),
                out |-> IF TransformThrows(<<calc.input>>) THEN NoData
                        ELSE transformSportsMonksMatchToFrontend(calc.input, calc.sport)]
    /\ UNCHANGED <<db, env, apiToken, ticks, cache, started, req>>

\* transformApiMatchToFrontend(match); reading a property of null throws
NormalizeCricketData ==
    /\ calc.op = "cricket_data" /\ ~calc.done
    /\ calc' = [op |-> calc.op, done |-> TRUE, input |-> calc.input,
                threw |-> (calc.input = NullMatch),
                out |-> IF calc.input = NullMatch THEN NoData
                        ELSE transformApiMatchToFrontend(calc.input)]
    /\ UNCHANGED <<db, env, apiToken, ticks, cache, started, req>>

\* the cache keys of two requests of one handler
BuildCacheKeys ==
    /\ calc.op = "key" /\ ~calc.done
    /\ calc' = [op |-> calc.op, done |-> TRUE, h |-> calc.h, q1 |-> calc.q1, q2 |-> calc.q2,
                k1 |-> CacheKey(calc.h, calc.q1, ""),
                k2 |-> CacheKey(calc.h, calc.q2, "")]
    /\ UNCHANGED <<db, env, apiToken, ticks, cache, started, req>>

NextPure == NormalizeSportsMonks \/ NormalizeCricketData \/ BuildCacheKeys

SpecPure == InitPure /\ [][NextPure]_vars

(***************************************************************************)
(* Two live cricket requests in flight at the same time: Node runs the     *)
(* stretch of one request between two awaits, then that of the other       *)
(***************************************************************************)
Racers == {1, 2}

InitRace ==
    /\ env \in Envs
    /\ apiToken = TRUE
    /\ ticks = 0
    /\ cache = <<>>
    /\ started = 0
    /\ req = [r \in Racers |-> IdleReq]
    /\ calc = NoCalc
    /\ db = NoDb

\* GET /api/cricket/matches/live arrives
StartLive(r) ==
    /\ req[r].pc = "idle"
    /\ started < Cardinality(Racers)
    /\ started' = started + 1
    /\ req' = [req EXCEPT ![r] = [IdleReq EXCEPT !.pc = "ctlGet", !.h = "cricketLive"]]
    /\ UNCHANGED <<db, calc, env, apiToken, ticks, cache>>

NextRace ==
    \/ \E r \in Racers : StartLive(r)
    \/ \E r \in Racers : CtlCacheGet(r)
    \/ \E r \in Racers : SvcCacheGet(r)
    \/ \E r \in Racers : SvcHttp(r)
    \/ \E r \in Racers : SvcHttpFixtures(r)
    \/ \E r \in Racers : SvcCacheSet(r)
    \/ \E r \in Racers : SecCacheGet(r)
    \/ \E r \in Racers : SecHttp(r)
    \/ \E r \in Racers : SecCacheSet(r)
    \/ \E r \in Racers : CtlCacheSet(r)
    \/ \E r \in Racers : SnapshotRead(r)

SpecRace == InitRace /\ [][NextRace]_vars

(***************************************************************************)
(* Match events over Socket.IO: handleMatchStart, handleGoalScored and     *)
(* handleWicketFallen keep the state of a live match under live:match:<id> *)
(***************************************************************************)
EventProcs == {1, 2, 3}
EventKinds == {"goal", "wicket"}

LiveMatchKey(matchId) == [k |-> "live:match", id |-> matchId]
LiveMatchData == [id |-> "11", status |-> "live"]

\* a call of an event handler; pc is the await it is suspended at
IdleEvent ==
    [pc |-> "idle", kind |-> "", matchId |-> "", ev |-> Absent,
     matchData |-> NoValue, stored |-> FALSE, emitted |-> FALSE]

\* matchData.events || []
EventsOf(matchData) == IF "events" \in DOMAIN matchData THEN matchData.events ELSE <<>>

\* matchData.events.push(data)
PushEvent(matchData, data) == [events |-> Append(EventsOf(matchData), data)] @@ matchData

\* the state of the match as Redis holds it
StoredMatch(matchId) == JSONParse(JSONParse(StoredValue(LiveMatchKey(matchId))))

InitEvents ==
    /\ env = "production"
    /\ apiToken = TRUE
    /\ ticks = 0
    /\ cache = <<>>
    /\ started = 0
    /\ req = [p \in EventProcs |-> IdleEvent]
    /\ calc = NoCalc
    /\ db = NoDb

\* handleMatchStart: redisClient.set(...) is not awaited; a rejection is lost
handleMatchStart ==
    /\ started = 0
    /\ started' = 1
    /\ \E outcome \in RedisOutcomes :
          cache' = IF outcome = "ok"
                   THEN RedisSet(LiveMatchKey(LiveMatchData.id), JSONStringify(LiveMatchData),
                                 3600, 0, [status |-> 0])
                   ELSE cache
    /\ UNCHANGED <<db, calc, env, apiToken, ticks, req>>

\* handleGoalScored or handleWicketFallen is called with the data of an event
EventReceived(p) ==
    /\ req[p].pc = "idle"
    /\ started = 1
    /\ \E kind \in EventKinds :
          req' = [req EXCEPT ![p] = [IdleEvent EXCEPT !.pc = "get", !.kind = kind,
                                        !.matchId = LiveMatchData.id,
                                        !.ev = [type |-> kind, no |-> p]]]
    /\ UNCHANGED <<db, calc, env, apiToken, ticks, cache, started>>

\* await redisClient.get(`live:match:${matchId}`), then the push; the wicket
\* handler issues its set without awaiting it and emits at once
EventRedisGet(p) ==
    LET e == req[p]
    IN  /\ e.pc = "get"
        /\ \E outcome \in RedisOutcomes :
              LET currentData == RedisGet(LiveMatchKey(e.matchId), outcome)
              IN  req' = [req EXCEPT ![p] =
                    IF currentData = NoValue
                    THEN [e EXCEPT !.pc = "done"]
                    ELSE [e EXCEPT !.pc = "set",
                                   !.matchData = PushEvent(JSONParse(currentData), e.ev),
                                   !.emitted = (e.kind = "wicket")]]
        /\ UNCHANGED <<db, calc, env, apiToken, ticks, cache, started>>

\* redisClient.set(`live:match:${matchId}`, JSON.stringify(matchData), 3600);
\* the goal handler awaits it and emits after it
EventRedisSet(p) ==
    LET e == req[p]
    IN  /\ e.pc = "set"
        /\ \E outcome \in RedisOutcomes :
              IF outcome = "ok"
              THEN /\ cache' = RedisSet(LiveMatchKey(e.matchId), JSONStringify(e.matchData),
                                        3600, 0, [status |-> 0])
                   /\ req' = [req EXCEPT ![p] = [e EXCEPT !.pc = "done", !.stored = TRUE,
                                                          !.emitted = TRUE]]
              ELSE /\ cache' = cache
                   /\ req' = [req EXCEPT ![p] = [e EXCEPT !.pc = "done"]]
        /\ UNCHANGED <<db, calc, env, apiToken, ticks, started>>

NextEvents ==
    \/ handleMatchStart
    \/ \E p \in EventProcs : EventReceived(p)
    \/ \E p \in EventProcs : EventRedisGet(p)
    \/ \E p \in EventProcs : EventRedisSet(p)

SpecEvents == InitEvents /\ [][NextEvents]_vars

(***************************************************************************)
(* Forum: the thread and comment controllers over the Thread, Comment and  *)
(* Vote collections, with their cached lists                               *)
(***************************************************************************)
Users == {"u1", "u2"}
VoteTypes == {"upvote", "downvote"}
Sorts == {"hot", "new"}
ThreadOps == {"getThreads", "createThread", "updateThread", "deleteThread",
              "voteThread", "pinThread", "lockThread"}
CommentOps == {"getComments", "createComment", "updateComment", "deleteComment",
               "voteComment"}

\* a document as the schema defaults make it; dates are readings of a clock
NewThread(id, now) ==
    [_id |-> id, title |-> "title", isDeleted |-> FALSE, isPinned |-> FALSE,
     isLocked |-> FALSE, upvotes |-> 0, downvotes |-> 0, score |-> 0,
     commentCount |-> 0, createdAt |-> now, lastActivity |-> now]
NewComment(id, threadId, now) ==
    [_id |-> id, thread |-> threadId, content |-> "content", isDeleted |-> FALSE,
     upvotes |-> 0, downvotes |-> 0, score |-> 0, createdAt |-> now]

\* the collections when the forum requests begin: one thread with one
\* comment and no vote.  ver counts the writes to the thread and comment
\* collections and serves as the clock; acked is the last write whose request
\* has been answered
ForumDb ==
    [threads |-> <<NewThread("t1", 0)>>,
     comments |-> <<NewComment("c1", "t1", 0)>>,
     votes |-> {}, voteIds |-> 0, ver |-> 0, acked |-> 0]

Collection(d, targetType) == IF targetType = "thread" THEN d.threads ELSE d.comments

\* Model.findById(id): the document, or null
findById(coll, id) ==
    IF \E i \in DOMAIN coll : coll[i]._id = id
    THEN coll[CHOOSE i \in DOMAIN coll : coll[i]._id = id]
    ELSE NoValue

\* Model.findByIdAndUpdate(id, fields), and the update doc.save() sends
UpdateById(coll, id, fields) ==
    [i \in DOMAIN coll |-> IF coll[i]._id = id THEN fields @@ coll[i] ELSE coll[i]]

\* a write to the thread or comment collection
WriteCollection(d, targetType, coll) ==
    IF targetType = "thread" THEN [d EXCEPT !.threads = coll, !.ver = @ + 1]
    ELSE [d EXCEPT !.comments = coll, !.ver = @ + 1]

\* doc.save() sends the paths whose value differs from the loaded document
ModifiedPaths(local, doc) == {f \in DOMAIN local : local[f] # doc[f]}
SaveFields(local, doc) == [f \in ModifiedPaths(local, doc) |-> local[f]]

\* the pre('save') hooks: score, and for a thread lastActivity when a counter changed
PreSave(local, doc, now) ==
    LET scored == [local EXCEPT !.score = local.upvotes - local.downvotes]
    IN  IF "lastActivity" \in DOMAIN doc
           /\ (scored.upvotes # doc.upvotes \/ scored.downvotes # doc.downvotes)
        THEN [scored EXCEPT !.lastActivity = now]
        ELSE scored

Max0(n) == IF n < 0 THEN 0 ELSE n

\* the counters of voteThread / voteComment after the vote has been written
ApplyVote(local, existingVote, voteType) ==
    IF existingVote = NoValue THEN
        IF voteType = "upvote" THEN [local EXCEPT !.upvotes = @ + 1]
        ELSE [local EXCEPT !.downvotes = @ + 1]
    ELSE IF existingVote.voteType = voteType THEN
        IF voteType = "upvote" THEN [local EXCEPT !.upvotes = Max0(@ - 1)]
        ELSE [local EXCEPT !.downvotes = Max0(@ - 1)]
    ELSE
        IF voteType = "upvote"
        THEN [local EXCEPT !.upvotes = @ + 1, !.downvotes = Max0(@ - 1)]
        ELSE [local EXCEPT !.downvotes = @ + 1, !.upvotes = Max0(@ - 1)]

\* Vote.findOne({user, targetType, targetId})
FindVote(votes, user, targetType, targetId) ==
    IF \E v \in votes : v.user = user /\ v.targetType = targetType /\ v.targetId = targetId
    THEN CHOOSE v \in votes : v.user = user /\ v.targetType = targetType /\ v.targetId = targetId
    ELSE NoValue

\* sort keys, compared field by field, greatest first
SortKey(doc, sort) ==
    IF "thread" \in DOMAIN doc THEN
        IF sort = "new" THEN <<doc.createdAt>> ELSE <<doc.score, doc.createdAt>>
    ELSE
        IF sort = "new" THEN <<IF doc.isPinned THEN 1 ELSE 0, doc.createdAt>>
        ELSE <<IF doc.isPinned THEN 1 ELSE 0, doc.score, doc.lastActivity>>

KeyLess(x, y) == \E i \in DOMAIN x : x[i] < y[i] /\ \A j \in 1..(i - 1) : x[j] = y[j]

RECURSIVE InsertBySortKey(_, _, _)
InsertBySortKey(doc, s, sort) ==
    IF s = <<>> THEN <<doc>>
    ELSE IF KeyLess(SortKey(Head(s), sort), SortKey(doc, sort)) THEN <<doc>> \o s
    ELSE <<Head(s)>> \o InsertBySortKey(doc, Tail(s), sort)

RECURSIVE SortDocs(_, _)
SortDocs(s, sort) ==
    IF s = <<>> THEN <<>>
    ELSE InsertBySortKey(s[Len(s)], SortDocs(SubSeq(s, 1, Len(s) - 1), sort), sort)

\* Thread.find({isDeleted: false}) and Comment.find({isDeleted: false, thread})
NotDeleted(doc) == ~doc.isDeleted
FindDocs(d, op, threadId) ==
    LET OfThread(doc) == ~doc.isDeleted /\ doc.thread = threadId
    IN  IF op = "getThreads" THEN SelectSeq(d.threads, NotDeleted)
        ELSE SelectSeq(d.comments, OfThread)

\* the defaults of page and limit
ListLimit(op) == IF op = "getThreads" THEN 20 ELSE 50

ListResult(op, docs, total) ==
    (IF op = "getThreads" THEN [threads |-> Slice(docs, 0, ListLimit(op))]
     ELSE [comments |-> Slice(docs, 0, ListLimit(op))])
    @@ [pagination |-> [current |-> 1, pages |-> CeilDiv(total, ListLimit(op)),
                        total |-> total, limit |-> ListLimit(op)]]

\* the cache keys of the lists
ThreadsKey(sort) ==
    [k |-> "threads", filter |-> [isDeleted |-> FALSE], sort |-> sort,
     time |-> "all", page |-> 1, limit |-> 20]
CommentsKey(threadId, sort) ==
    [k |-> "comments", thread |-> threadId, parent |-> "root", sort |-> sort,
     page |-> 1, limit |-> 50]
ListKey(op, threadId, sort) ==
    IF op = "getThreads" THEN ThreadsKey(sort) ELSE CommentsKey(threadId, sort)

\* the key the comment handlers pass to del: `comments:${threadId}:*`
CommentsPattern(threadId) == [k |-> "comments", thread |-> threadId, rest |-> "*"]

\* redisClient.keys('threads:*')
RedisKeys(prefix) == {key \in DOMAIN cache : key.k = prefix}

\* DEL of the named keys
RedisDel(keys) == [key \in DOMAIN cache \ keys |-> cache[key]]

\* a duplicate key error reaches errorHandler as a MongoError (409) or, with
\* a newer driver, as a MongoServerError (500)
DuplicateKeyStatuses == {409, 500}

\* a forum request; pc is the await it is suspended at.  doc is the document
\* findById loaded and local the same document with the handler's
\* assignments; since, readVer, served and wrote record the writes answered
\* when the request arrived, the write count when it read its list, the write
\* count of the list it was served from the cache, and the write it made
IdleForum ==
    [pc |-> "idle", op |-> "", user |-> "", voteType |-> "", flag |-> FALSE,
     id |-> "", sort |-> "", targetType |-> "",
     doc |-> NoValue, local |-> NoValue, existingVote |-> NoValue,
     keys |-> {}, docs |-> <<>>, total |-> 0,
     since |-> 0, readVer |-> 0, served |-> -1, wrote |-> 0,
     resp |-> [status |-> 0]]

MaxForumRequests == 3
ForumProcs == {1, 2}

InitForum ==
    /\ env = "production"
    /\ apiToken = TRUE
    /\ ticks = 0
    /\ cache = <<>>
    /\ started = 0
    /\ req = [p \in ForumProcs |-> IdleForum]
    /\ calc = NoCalc
    /\ db = ForumDb

\* res.status(status).json(body)
ForumRespond(e, status, body) ==
    [e EXCEPT !.pc = "done", !.resp = [status |-> status, body |-> body]]

\* the request's write has been answered
Answered(d, e) == [d EXCEPT !.acked = IF e.wrote > @ THEN e.wrote ELSE @]

\* the await a handler reaches first
FirstAwait(op) ==
    CASE op \in {"getThreads", "getComments"} -> "listGet"
      [] op = "createThread" -> "write"
      [] OTHER -> "find"

\* a request arrives at a thread handler
ThreadStart(p) ==
    /\ req[p].pc = "idle"
    /\ started < MaxForumRequests
    /\ started' = started + 1
    /\ \E op \in ThreadOps, user \in Users, voteType \in VoteTypes, flag \in BOOLEAN,
          sort \in Sorts :
          /\ op = "voteThread" \/ (user = "u1" /\ voteType = "upvote")
          /\ op \in {"pinThread", "lockThread"} \/ flag
          /\ op = "getThreads" \/ sort = "hot"
          /\ req' = [req EXCEPT ![p] =
                [IdleForum EXCEPT !.pc = FirstAwait(op), !.op = op, !.user = user,
                                  !.voteType = voteType, !.flag = flag, !.sort = sort,
                                  !.id = "t1", !.targetType = "thread",
                                  !.since = db.acked]]
    /\ UNCHANGED <<db, calc, env, apiToken, ticks, cache>>

\* a request arrives at a comment handler
CommentStart(p) ==
    /\ req[p].pc = "idle"
    /\ started < MaxForumRequests
    /\ started' = started + 1
    /\ \E op \in CommentOps, user \in Users, voteType \in VoteTypes, sort \in Sorts :
          /\ op = "voteComment" \/ (user = "u1" /\ voteType = "upvote")
          /\ op = "getComments" \/ sort = "hot"
          /\ req' = [req EXCEPT ![p] =
                [IdleForum EXCEPT !.pc = FirstAwait(op), !.op = op, !.user = user,
                                  !.voteType = voteType, !.sort = sort,
                                  !.id = IF op \in {"getComments", "createComment"}
                                         THEN "t1" ELSE "c1",
                                  !.targetType = IF op \in {"getComments", "createComment"}
                                                 THEN "thread" ELSE "comment",
                                  !.since = db.acked]]
    /\ UNCHANGED <<db, calc, env, apiToken, ticks, cache>>

\* the response has been sent and the request is over
ForumFinish(p) ==
    /\ req[p].pc = "done"
    /\ req' = [req EXCEPT ![p] = IdleForum]
    /\ UNCHANGED <<db, calc, env, apiToken, ticks, cache, started>>

\* getThreads / getComments: await redisClient.get(cacheKey)
ListCacheGet(p) ==
    LET e == req[p]
        key == ListKey(e.op, e.id, e.sort)
    IN  /\ e.pc = "listGet"
        /\ \E outcome \in RedisOutcomes :
              LET cachedData == RedisGet(key, outcome)
              IN  req' = [req EXCEPT ![p] =
                    IF cachedData # NoValue
                    THEN ForumRespond([e EXCEPT !.served = cache[key].out.ver], 200,
                                      [success |-> TRUE, data |-> JSONParse(cachedData)])
                    ELSE [e EXCEPT !.pc = "listFind"]]
        /\ UNCHANGED <<db, calc, env, apiToken, ticks, cache, started>>

\* await Thread.find(filter).sort(sortObj).skip(skip).limit(limit)
ListFind(p) ==
    LET e == req[p]
    IN  /\ e.pc = "listFind"
        /\ req' = [req EXCEPT ![p] =
              [e EXCEPT !.pc = "listCount", !.readVer = db.ver,
                        !.docs = SortDocs(FindDocs(db, e.op, e.id), e.sort)]]
        /\ UNCHANGED <<db, calc, env, apiToken, ticks, cache, started>>

\* await Thread.countDocuments(filter)
ListCount(p) ==
    LET e == req[p]
    IN  /\ e.pc = "listCount"
        /\ req' = [req EXCEPT ![p] =
              [e EXCEPT !.pc = "listSet", !.total = Len(FindDocs(db, e.op, e.id))]]
        /\ UNCHANGED <<db, calc, env, apiToken, ticks, cache, started>>

\* await redisClient.set(cacheKey, JSON.stringify(result), 300), then
\* res.json; a rejected write reaches errorHandler
ListCacheSet(p) ==
    LET e == req[p]
        key == ListKey(e.op, e.id, e.sort)
        result == ListResult(e.op, e.docs, e.total)
        failed == errorHandler([name |-> "Error", message |-> "Command timed out"], env)
    IN  /\ e.pc = "listSet"
        /\ \E outcome \in RedisOutcomes :
              IF outcome = "ok"
              THEN /\ cache' = RedisSet(key, JSONStringify(result), 300, 0,
                                        [status |-> 200, ver |-> e.readVer])
                   /\ req' = [req EXCEPT ![p] =
                         ForumRespond(e, 200, [success |-> TRUE, data |-> result])]
              ELSE /\ cache' = cache
                   /\ req' = [req EXCEPT ![p] = ForumRespond(e, failed.status, failed.body)]
        /\ UNCHANGED <<db, calc, env, apiToken, ticks, started>>

\* await Thread.findById(id) / Comment.findById(id), then the checks and
\* the assignments of the handler up to its next await
FindTarget(p) ==
    LET e == req[p]
        doc == findById(Collection(db, e.targetType), e.id)
        local == CASE e.op = "pinThread" -> [doc EXCEPT !.isPinned = e.flag]
                   [] e.op = "lockThread" -> [doc EXCEPT !.isLocked = e.flag]
                   [] OTHER -> doc
    IN  /\ e.pc = "find"
        /\ req' = [req EXCEPT ![p] =
              IF doc = NoValue \/ doc.isDeleted
              THEN ForumRespond(e, 404, [success |-> FALSE,
                        message |-> IF e.targetType = "thread" THEN "Thread not found"
                                    ELSE "Comment not found"])
              ELSE IF e.op = "createComment" /\ doc.isLocked
              THEN ForumRespond(e, 403, [success |-> FALSE, message |-> "Thread is locked"])
              ELSE [e EXCEPT !.doc = doc, !.local = local,
                             !.pc = IF e.op \in {"voteThread", "voteComment"}
                                    THEN "findVote" ELSE "write"]]
        /\ UNCHANGED <<db, calc, env, apiToken, ticks, cache, started>>

\* await Vote.findOne({user, targetType, targetId})
FindExistingVote(p) ==
    LET e == req[p]
    IN  /\ e.pc = "findVote"
        /\ req' = [req EXCEPT ![p] =
              [e EXCEPT !.pc = "writeVote",
                        !.existingVote = FindVote(db.votes, e.user, e.targetType, e.id)]]
        /\ UNCHANGED <<db, calc, env, apiToken, ticks, cache, started>>

\* await Vote.findByIdAndDelete / existingVote.save() / Vote.create, then
\* the handler's change of the counters of the document it loaded
WriteVote(p) ==
    LET e == req[p]
        old == e.existingVote
        voted == [e EXCEPT !.pc = "write",
                           !.local = ApplyVote(e.local, old, e.voteType)]
        present == FindVote(db.votes, e.user, e.targetType, e.id)
    IN  /\ e.pc = "writeVote"
        /\ IF old # NoValue /\ old.voteType = e.voteType
           THEN /\ db' = [db EXCEPT !.votes = @ \ {old}]
                /\ req' = [req EXCEPT ![p] = voted]
           ELSE IF old # NoValue
           THEN IF old \in db.votes
                THEN /\ db' = [db EXCEPT !.votes =
                                  (@ \ {old}) \cup {[old EXCEPT !.voteType = e.voteType]}]
                     /\ req' = [req EXCEPT ![p] = voted]
                ELSE /\ db' = db
                     /\ req' = [req EXCEPT ![p] =
                           ForumRespond(e, 500, [success |-> FALSE,
                                                 error |-> [message |-> "Something went wrong!"]])]
           ELSE IF present = NoValue
                THEN /\ db' = [db EXCEPT !.voteIds = @ + 1,
                                         !.votes = @ \cup {[_id |-> db.voteIds + 1, user |-> e.user,
                                                            targetType |-> e.targetType,
                                                            targetId |-> e.id,
                                                            voteType |-> e.voteType]}]
                     /\ req' = [req EXCEPT ![p] = voted]
                ELSE /\ db' = db
                     /\ \E status \in DuplicateKeyStatuses :
                           req' = [req EXCEPT ![p] =
                             ForumRespond(e, status, [success |-> FALSE,
                                                      error |-> [message |-> "Something went wrong!"]])]
        /\ UNCHANGED <<calc, env, apiToken, ticks, cache, started>>

\* the await after the write of the document
AfterWrite(op) ==
    CASE op \in ThreadOps -> "keys"
      [] op \in {"createComment", "deleteComment"} -> "count"
      [] OTHER -> "del"

\* the write of the thread or comment: thread.save() of a new thread,
\* findByIdAndUpdate of the edited or deleted one, doc.save() of the
\* document the handler loaded and changed
WriteTarget(p) ==
    LET e == req[p]
        now == db.ver + 1
        coll == Collection(db, IF e.op = "createComment" THEN "comment" ELSE e.targetType)
        saved == PreSave(e.local, e.doc, now)
        written ==
            CASE e.op = "createThread" ->
                    Append(coll, NewThread("t" \o ToString(Len(coll) + 1), now))
              [] e.op = "createComment" ->
                    Append(coll, NewComment("c" \o ToString(Len(coll) + 1), e.id, now))
              [] e.op = "updateThread" -> UpdateById(coll, e.id, [title |-> "edited"])
              [] e.op = "updateComment" -> UpdateById(coll, e.id, [content |-> "edited"])
              [] e.op \in {"deleteThread", "deleteComment"} ->
                    UpdateById(coll, e.id, [isDeleted |-> TRUE])
              [] OTHER -> UpdateById(coll, e.id, SaveFields(saved, e.doc))
    IN  /\ e.pc = "write"
        /\ db' = IF written = coll THEN db
                 ELSE WriteCollection(db, IF e.op = "createComment" THEN "comment"
                                          ELSE e.targetType, written)
        /\ req' = [req EXCEPT ![p] =
              [e EXCEPT !.pc = AfterWrite(e.op), !.local = saved,
                        !.wrote = IF written = coll THEN 0 ELSE now]]
        /\ UNCHANGED <<calc, env, apiToken, ticks, cache, started>>

\* await redisClient.keys('threads:*'); keys() answers [] when the command fails
ClearKeys(p) ==
    LET e == req[p]
        status == IF e.op = "createThread" THEN 201 ELSE 200
    IN  /\ e.pc = "keys"
        /\ \E outcome \in RedisOutcomes :
              LET keys == IF outcome = "ok" THEN RedisKeys("threads") ELSE {}
              IN  IF keys = {}
                  THEN /\ req' = [req EXCEPT ![p] = ForumRespond(e, status, [success |-> TRUE])]
                       /\ db' = Answered(db, e)
                  ELSE /\ req' = [req EXCEPT ![p] = [e EXCEPT !.pc = "delKeys", !.keys = keys]]
                       /\ db' = db
        /\ UNCHANGED <<calc, env, apiToken, ticks, cache, started>>

\* await Promise.all(keys.map(key => redisClient.del(key))) inside try/catch
ClearDel(p) ==
    LET e == req[p]
        status == IF e.op = "createThread" THEN 201 ELSE 200
    IN  /\ e.pc = "delKeys"
        /\ \E outcome \in RedisOutcomes :
              cache' = IF outcome = "ok" THEN RedisDel(e.keys) ELSE cache
        /\ req' = [req EXCEPT ![p] = ForumRespond(e, status, [success |-> TRUE])]
        /\ db' = Answered(db, e)
        /\ UNCHANGED <<calc, env, apiToken, ticks, started>>

\* await Thread.findByIdAndUpdate(threadId, {$inc: {commentCount: +-1}})
UpdateCommentCount(p) ==
    LET e == req[p]
        threadId == IF e.op = "createComment" THEN e.id ELSE e.doc.thread
        thread == findById(db.threads, threadId)
        n == IF e.op = "createComment" THEN 1 ELSE -1
    IN  /\ e.pc = "count"
        /\ db' = IF thread = NoValue THEN db
                 ELSE [db EXCEPT !.threads =
                          UpdateById(@, threadId, [commentCount |-> thread.commentCount + n])]
        /\ req' = [req EXCEPT ![p] = [e EXCEPT !.pc = "del"]]
        /\ UNCHANGED <<calc, env, apiToken, ticks, cache, started>>

\* await redisClient.del(`comments:${threadId}:*`), then res.json; a
\* rejected del reaches errorHandler
CommentDel(p) ==
    LET e == req[p]
        threadId == IF e.op = "createComment" THEN e.id ELSE e.doc.thread
        status == IF e.op = "createComment" THEN 201 ELSE 200
        failed == errorHandler([name |-> "Error", message |-> "Command timed out"], env)
    IN  /\ e.pc = "del"
        /\ \E outcome \in RedisOutcomes :
              IF outcome = "ok"
              THEN /\ cache' = RedisDel({CommentsPattern(threadId)})
                   /\ req' = [req EXCEPT ![p] = ForumRespond(e, status, [success |-> TRUE])]
              ELSE /\ cache' = cache
                   /\ req' = [req EXCEPT ![p] = ForumRespond(e, failed.status, failed.body)]
        /\ db' = Answered(db, e)
        /\ UNCHANGED <<calc, env, apiToken, ticks, started>>

NextThreads ==
    \/ \E p \in ForumProcs : ThreadStart(p)
    \/ \E p \in ForumProcs : ForumFinish(p)
    \/ \E p \in ForumProcs : ListCacheGet(p)
    \/ \E p \in ForumProcs : ListFind(p)
    \/ \E p \in ForumProcs : ListCount(p)
    \/ \E p \in ForumProcs : ListCacheSet(p)
    \/ \E p \in ForumProcs : FindTarget(p)
    \/ \E p \in ForumProcs : FindExistingVote(p)
    \/ \E p \in ForumProcs : WriteVote(p)
    \/ \E p \in ForumProcs : WriteTarget(p)
    \/ \E p \in ForumProcs : ClearKeys(p)
    \/ \E p \in ForumProcs : ClearDel(p)

SpecThreads == InitForum /\ [][NextThreads]_vars

NextComments ==
    \/ \E p \in ForumProcs : CommentStart(p)
    \/ \E p \in ForumProcs : ForumFinish(p)
    \/ \E p \in ForumProcs : ListCacheGet(p)
    \/ \E p \in ForumProcs : ListFind(p)
    \/ \E p \in ForumProcs : ListCount(p)
    \/ \E p \in ForumProcs : ListCacheSet(p)
    \/ \E p \in ForumProcs : FindTarget(p)
    \/ \E p \in ForumProcs : FindExistingVote(p)
    \/ \E p \in ForumProcs : WriteVote(p)
    \/ \E p \in ForumProcs : WriteTarget(p)
    \/ \E p \in ForumProcs : UpdateCommentCount(p)
    \/ \E p \in ForumProcs : CommentDel(p)

SpecComments == InitForum /\ [][NextComments]_vars

(***************************************************************************)
(* Properties                                                              *)
(***************************************************************************)
ListHandlers == {"cricketLive", "footballLive", "cricketFixtures", "cricketResults"}
CricketReads == {"cricketLive", "cricketFixtures", "cricketResults", "cricketDetail"}

Count(s, x) == Cardinality({i \in DOMAIN s : s[i] = x})
Calls(rq, provider) == Cardinality({i \in DOMAIN rq.http : rq.http[i].provider = provider})
Has(body, field) == field \in DOMAIN body
Items(h, data) ==
    CASE h = "cricketFixtures" -> data.fixtures
      [] h = "cricketResults" -> data.results
      [] OTHER -> data
KeyOf(rq) == CacheKey(rq.h, rq.q, rq.id)

\* the request answered 200 with data of a provider: no warning in the body
Served(rq) == rq.pc = "done" /\ rq.resp.status = 200 /\ ~Has(rq.resp.body, "warning")

\* the TTL table, seconds, by endpoint and environment
TtlTable(h, e) ==
    CASE h \in {"cricketLive", "footballLive"} -> IF e = "development" THEN 30 ELSE 900
      [] h = "cricketFixtures" -> IF e = "development" THEN 300 ELSE 900
      [] h = "cricketResults" -> IF e = "development" THEN 900 ELSE 3600
      [] h = "cricketDetail" -> 60
      [] h = "cricketCommentary" -> 30

TierRank(t) ==
    CASE t = "CACHE_CHECK" -> 1
      [] t = "PRIMARY_FETCH" -> 2
      [] t = "SECONDARY_FETCH" -> 3
      [] t = "SNAPSHOT_FALLBACK" -> 4
      [] t = "RESPOND" -> 5

C2_Original ==
    \A r \in Reqs :
        LET rq == req[r]
        IN  /\ \A i, j \in DOMAIN rq.trace :
                  i < j => TierRank(rq.trace[i]) < TierRank(rq.trace[j])
            /\ (rq.primary # "" => rq.trace[1] = "CACHE_CHECK")
            /\ (rq.secondary # "" => Sport(rq.h) = "cricket" /\ rq.primary = "failed")
            /\ (Count(rq.trace, "SNAPSHOT_FALLBACK") > 0
                  => rq.primary = "failed" /\ rq.secondary \in {"", "failed"})

\* C3, as stated: on every cricket read endpoint (live, upcoming, completed,
\* detail) a primary failure with HTTP 403, a timeout or a 5xx is followed by
\* an attempt of the secondary provider, and the snapshot store is read only
\* if the secondary failed too.
C3_Original ==
    \A r \in Reqs :
        LET rq == req[r]
        IN  (/\ rq.h \in CricketReads
             /\ rq.primary = "failed"
             /\ rq.perr \in {AxiosError(403), AxiosError(500), AxiosError(0)}
             /\ Count(rq.trace, "SNAPSHOT_FALLBACK") > 0)
            => rq.secondary = "failed"

\* C4, as stated: a call that finds the entry an earlier call wrote under its
\* key, inside the entry's TTL, returns output byte-identical to that earlier
\* call's output, calls no provider client and skips every other state.
C4_Original ==
    \A r \in Reqs :
        LET rq == req[r]
        IN  (rq.pc = "done" /\ rq.hit.status # 0 /\ rq.primary = "")
            => /\ rq.resp = rq.hit
               /\ rq.http = <<>>
               /\ rq.trace = <<"CACHE_CHECK", "RESPOND">>

\* C5: on a match list endpoint, when every provider attempted failed and the
\* snapshot store returned zero rows, the response is a 200 success whose item
\* list is empty and whose warning is a non-empty string.
C5_EmptySnapshot ==
    \A r \in Reqs :
        LET rq == req[r]
        IN  (/\ rq.pc = "done"
             /\ rq.h \in ListHandlers
             /\ rq.primary = "failed" /\ rq.secondary # "ok"
             /\ rq.db = "empty")
            => /\ rq.resp.status = 200
               /\ rq.resp.body.success
               /\ Items(rq.h, rq.resp.body.data) = <<>>
               /\ Has(rq.resp.body, "warning")
               /\ rq.resp.body.warning # ""

C5_Witness ==
    \E r \in Reqs :
        /\ req[r].pc = "done" /\ req[r].h = "cricketLive"
        /\ req[r].primary = "failed" /\ req[r].secondary = "failed"
        /\ req[r].db = "empty"
        /\ req[r].resp.status = 200

\* C6, as stated: on every read path and for every outcome of the cache, the
\* providers and the snapshot store, the caller receives a 200 success
\* envelope, never an HTTP error status.
C6_Original ==
    \A r \in Reqs :
        req[r].pc = "done" => req[r].resp.status = 200 /\ req[r].resp.body.success

\* C7, as stated: when the provider answers HTTP 200 with an empty array, the
\* request yields an empty item list and no warning field.
C7_Original ==
    \A r \in Reqs :
        LET rq == req[r]
        IN  (/\ rq.pc = "done"
             /\ rq.h \in ListHandlers
             /\ Len(rq.http) = 1
             /\ rq.http[1].empty)
            => /\ rq.resp.status = 200
               /\ Items(rq.h, rq.resp.body.data) = <<>>
               /\ ~Has(rq.resp.body, "warning")

\* C8, as stated: when a provider fetch, primary or secondary, succeeds on a
\* cache miss, its normalized result is written to the cache under the
\* request's key and is the result returned to the caller.
C8_Original ==
    \A r \in Reqs :
        LET rq == req[r]
        IN  (/\ rq.pc = "done"
             /\ rq.http # <<>>
             /\ rq.primary = "ok" \/ rq.secondary = "ok")
            => /\ KeyOf(rq) \in DOMAIN cache
               /\ cache[KeyOf(rq)].val
                    = StringifyOptional(JSONStringify(StringifyData(rq.h, rq.result)))
               /\ rq.resp.status = 200
               /\ rq.resp.body.data = StringifyData(rq.h, rq.result)

C10_Original ==
    \A r \in Reqs :
        Served(req[r]) => req[r].age <= TtlTable(req[r].h, env)

\* C11, as stated: within one request each provider tier issues at most one
\* upstream call: a provider client call makes a single outbound request and
\* performs no fallback of its own.
C11_Original ==
    \A r \in Reqs :
        /\ Calls(req[r], "sportsmonks") <= 1
        /\ Calls(req[r], "cricket_data_api") <= 1

\* C12, as stated: a response carries a warning only when it was produced on
\* the snapshot-fallback path, that is, after a read of the snapshot store.
C12_Original ==
    \A r \in Reqs :
        (req[r].pc = "done" /\ Has(req[r].resp.body, "warning"))
            => Count(req[r].trace, "SNAPSHOT_FALLBACK") > 0

\* C12, amended: a response carries a warning exactly when it is the 200
\* answer of the handler's catch block: the snapshot fallback, or, for the
\* commentary handler, which has no snapshot store, the empty list it answers
\* after a failure.  A response served from the cache or from a successful
\* provider fetch whose cache write succeeded never carries a warning.
C12_WarningOnFallback ==
    \A r \in Reqs :
        LET rq == req[r]
        IN  rq.pc = "done"
            => /\ Has(rq.resp.body, "warning")
                  <=> /\ rq.resp.status = 200
                      /\ \/ Count(rq.trace, "SNAPSHOT_FALLBACK") > 0
                         \/ rq.h = "cricketCommentary" /\ rq.err # NoErr
               /\ (rq.primary = "" => ~Has(rq.resp.body, "warning"))

C12_Witness ==
    \E r \in Reqs :
        /\ req[r].pc = "done"
        /\ req[r].h = "cricketCommentary"
        /\ req[r].primary = "failed"
        /\ Has(req[r].resp.body, "warning")
        /\ Count(req[r].trace, "SNAPSHOT_FALLBACK") = 0

\* C13, as stated: the response built from a successful provider fetch,
\* primary or secondary, has a source field that names the provider which
\* produced the result.
C13_Original ==
    \A r \in Reqs :
        LET rq == req[r]
        IN  (Served(rq) /\ rq.http # <<>>)
            => /\ Has(rq.resp.body, "source")
               /\ rq.resp.body.source
                    = (IF rq.secondary = "ok" THEN "cricket_data_api" ELSE "sportsmonks")

\* a normalizer has returned a match
Normalized(provider) == calc.op = provider /\ calc.done /\ ~calc.threw
CanonicalStatuses == {"upcoming", "live", "completed", "cancelled"}
NoIds(s, field) == \A i \in DOMAIN s : s[i][field] = 0

\* C14, as stated: in every match normalized from either provider the current
\* score is populated only when status is live and the final score only when
\* status is completed, and never both.
C14_Original ==
    (Normalized("sportsmonks") \/ Normalized("cricket_data"))
        => /\ Has(calc.out, "currentScore") => calc.out.status = "live"
           /\ Has(calc.out, "score") => calc.out.status = "completed"
           /\ ~(Has(calc.out, "currentScore") /\ Has(calc.out, "score"))

\* C15: the normalizer of provider A maps every state code to exactly one of
\* the canonical statuses, 1 to upcoming, 3 to live and 5 to completed, and the
\* status depends on the state code alone, never on another field of the payload.
C15_StatusTable ==
    Normalized("sportsmonks")
        => /\ calc.out.status \in CanonicalStatuses
           /\ calc.out.status = SportsMonksStatus(calc.input.state_id)
           /\ (calc.input.state_id = 1 => calc.out.status = "upcoming")
           /\ (calc.input.state_id = 3 => calc.out.status = "live")
           /\ (calc.input.state_id = 5 => calc.out.status = "completed")

C15_Witness ==
    /\ Normalized("sportsmonks")
    /\ calc.input.state_id = 5
    /\ calc.out.status = "completed"

\* C16, as stated: the normalizer of provider B derives status from the
\* matchStarted / matchEnded pair: not started and not ended is upcoming,
\* started and not ended is live, ended is completed.
C16_Original ==
    Normalized("cricket_data")
        => /\ (~calc.input.matchStarted /\ ~calc.input.matchEnded)
                => calc.out.status = "upcoming"
           /\ (calc.input.matchStarted /\ ~calc.input.matchEnded)
                => calc.out.status = "live"
           /\ calc.input.matchEnded => calc.out.status = "completed"

\* C17, as stated: for a provider-A fixture whose participants and scores
\* carry no identifiers the home score is the first score entry and the away
\* score the second; with state_id 3 and scores 120 then 95 the result is
\* live, current score 120 to 95, and no final score.
C17_Original ==
    (/\ Normalized("sportsmonks")
     /\ calc.input.state_id = 3
     /\ Len(calc.input.participants) = 2 /\ NoIds(calc.input.participants, "id")
     /\ Len(calc.input.scores) = 2 /\ NoIds(calc.input.scores, "participant_id"))
        => /\ calc.out.status = "live"
           /\ calc.out.currentScore.home.runs = calc.input.scores[1].score
           /\ calc.out.currentScore.away.runs = calc.input.scores[2].score
           /\ ~Has(calc.out, "score")

\* C18, as stated: a payload without a match id or without any team is
\* rejected by the normalizer, which throws; a payload that has both is
\* normalized without throwing.
C18_Original ==
    /\ (calc.op = "sportsmonks" /\ calc.done /\ calc.input # NullMatch)
          => (calc.threw <=> (calc.input.id = 0 \/ calc.input.participants = <<>>))
    /\ (calc.op = "cricket_data" /\ calc.done /\ calc.input # NullMatch)
          => (calc.threw <=> (calc.input.id = "" \/ calc.input.teams = <<>>))

\* C19, as stated: two requests that carry the same filters, in whatever order,
\* are mapped to the same cache key.
C19_Original ==
    (/\ calc.op = "key" /\ calc.done
     /\ {calc.q1[i] : i \in DOMAIN calc.q1} = {calc.q2[i] : i \in DOMAIN calc.q2})
        => calc.k1 = calc.k2

C25_Original ==
    ~apiToken => started = 0

\* C28: a request that ends on the snapshot-fallback path leaves the entry
\* under its cache key as it found it; only the step that answers from a
\* provider fetch writes a controller key, so no entry holds snapshot data, a
\* cache hit never carries the fallback warning, and a request that finds no
\* entry under its key calls the primary provider client.
C28_FallbackNotCached ==
    /\ [](\A r \in Reqs :
            LET rq == req[r]
            IN  /\ (rq.pc \in {"dbRead", "done"} /\ Count(rq.trace, "SNAPSHOT_FALLBACK") > 0)
                      => /\ (KeyOf(rq) \in DOMAIN cache) <=> (rq.hit.status # 0)
                         /\ KeyOf(rq) \in DOMAIN cache => cache[KeyOf(rq)].out = rq.hit
                /\ (rq.pc = "done" /\ rq.primary = "")
                      => /\ ~Has(rq.resp.body, "warning")
                         /\ ~Has(rq.hit.body, "warning")
                /\ (rq.pc \notin {"idle", "ctlGet"} /\ rq.hit.status = 0) => rq.primary # "")
    /\ [][\A k \in ControllerKeys :
            (/\ ticks' = ticks
             /\ \/ (k \in DOMAIN cache) # (k \in DOMAIN cache')
                \/ k \in DOMAIN cache /\ k \in DOMAIN cache' /\ cache'[k] # cache[k])
            => \E r \in Reqs :
                  /\ req[r].pc = "ctlSet" /\ req'[r].pc = "done"
                  /\ KeyOf(req[r]) = k
                  /\ Count(req'[r].trace, "SNAPSHOT_FALLBACK") = 0
                  /\ ~Has(req'[r].resp.body, "warning")
                  /\ cache'[k].out = req'[r].resp]_vars

C28_Witness ==
    \E r \in Reqs :
        /\ req[r].pc = "done"
        /\ Count(req[r].trace, "SNAPSHOT_FALLBACK") > 0
        /\ Has(req[r].resp.body, "warning")
        /\ KeyOf(req[r]) \in DOMAIN cache
        /\ cache[KeyOf(req[r])].out = req[r].hit

\* the last upstream call of the request
LastCall(rq) == rq.http[Len(rq.http)]

\* C24: every match read request that has been received eventually reaches
\* RESPOND; the step in which an upstream call times out takes the request on
\* to the secondary provider, to the snapshot fallback or to its response, so
\* that no request stays waiting on the provider.
C24_EventuallyResponds ==
    /\ \A r \in Reqs :
          (req[r].pc # "idle")
              ~> (/\ req[r].pc = "done"
                  /\ req[r].trace[Len(req[r].trace)] = "RESPOND"
                  /\ req[r].resp.status # 0)
    /\ [][\A r \in Reqs :
            (Len(req'[r].http) = Len(req[r].http) + 1 /\ LastCall(req'[r]).status = 0)
                => /\ req'[r].pc \in {"secGet", "dbRead", "done"}
                   /\ req'[r].trace[Len(req'[r].trace)]
                        \in {"SECONDARY_FETCH", "SNAPSHOT_FALLBACK", "RESPOND"}]_vars

C24_Witness ==
    \E r \in Reqs :
        /\ req[r].pc = "done"
        /\ req[r].http # <<>> /\ LastCall(req[r]).status = 0
        /\ req[r].trace[Len(req[r].trace)] = "RESPOND"
        /\ req[r].h = "cricketFixtures"

\* C29: the live cricket handler sends exactly one response on every path: a
\* request that is under way has sent none, a finished one has sent one, and
\* every request that is under way goes on to send its one.
C29_OneResponse ==
    /\ [](\A r \in Reqs :
            LET rq == req[r]
            IN  rq.h = "cricketLive"
                => /\ Count(rq.trace, "RESPOND") = (IF rq.pc = "done" THEN 1 ELSE 0)
                   /\ (rq.resp.status # 0) <=> (rq.pc = "done"))
    /\ \A r \in Reqs :
          (req[r].h = "cricketLive" /\ req[r].pc # "done")
              ~> (req[r].pc = "done" /\ Count(req[r].trace, "RESPOND") = 1)

C29_Witness ==
    \E r \in Reqs :
        /\ req[r].h = "cricketLive" /\ req[r].pc = "done"
        /\ req[r].primary = "ok"
        /\ req[r].db = "rejected"
        /\ req[r].resp.status = 500
        /\ Count(req[r].trace, "RESPOND") = 1

\* requests r1 and r2 have both ended after each looked up the same key while
\* no entry had been written under it, and each went on to the provider client
BothMissed(r1, r2) ==
    /\ r1 # r2
    /\ req[r1].pc = "done" /\ req[r2].pc = "done"
    /\ KeyOf(req[r1]) = KeyOf(req[r2])
    /\ req[r1].hit.status = 0 /\ req[r2].hit.status = 0
    /\ req[r1].primary # "" /\ req[r2].primary # ""

\* what the handler computes from the payload its provider client returned
Recomputed(rq) ==
    IF rq.source = "cricket_data_api" THEN CricketDataResult(rq.raw)
    ELSE ControllerResult(rq.h, rq.q, rq.raw)

\* C21, as stated: when two requests for one key both miss the cache before
\* either has written it, each calls the upstream provider itself, and each
\* whose provider client returned answers 200 without a warning with the data
\* built from what its own call returned.
C21_Original ==
    \A r1 \in Racers, r2 \in Racers :
        BothMissed(r1, r2)
            => /\ Calls(req[r1], "sportsmonks") >= 1
               /\ (req[r1].primary = "ok" \/ req[r1].secondary = "ok")
                    => /\ Served(req[r1])
                       /\ req[r1].resp.body.data = StringifyData(req[r1].h, req[r1].result)

C23_Original ==
    (\A q \in EventProcs : req[q].pc \in {"idle", "done"})
        => \A p \in EventProcs :
              req[p].stored
                  => \E i \in DOMAIN EventsOf(StoredMatch(req[p].matchId)) :
                        EventsOf(StoredMatch(req[p].matchId))[i] = req[p].ev


\* the Vote records of one type cast on a thread or comment
VotesOn(targetType, targetId, voteType) ==
    {v \in db.votes : /\ v.targetType = targetType
                      /\ v.targetId = targetId
                      /\ v.voteType = voteType}

\* no request is between its first await and its response
ForumQuiet == \A p \in ForumProcs : req[p].pc \in {"idle", "done"}

\* C30: once every voteThread request has completed, the upvotes and
\* downvotes counters of the thread equal the numbers of upvote and downvote
\* Vote records for it, and the counters are never negative
C30_Original ==
    LET thread == findById(db.threads, "t1")
    IN  /\ thread.upvotes >= 0
        /\ thread.downvotes >= 0
        /\ ForumQuiet =>
              /\ thread.upvotes = Cardinality(VotesOn("thread", "t1", "upvote"))
              /\ thread.downvotes = Cardinality(VotesOn("thread", "t1", "downvote"))


\* C26: once a thread mutation has been answered, no getThreads request
\* that arrives later is served a cached list that was read from the
\* database before that mutation's write, also when the cache miss that
\* stored the list overlapped the mutation
C26_Original ==
    \A p \in ForumProcs :
        (/\ req[p].op = "getThreads"
         /\ req[p].pc = "done"
         /\ req[p].served # -1) => req[p].served >= req[p].since


\* C27: when createComment, updateComment, deleteComment or voteComment
\* completes with success, no cached comment list of that thread
\* (comments:<threadId>:<parent>:<sort>:<page>:<limit>) is left in the cache,
\* so the next getComments reads the database
C27_Original ==
    [][\A p \in ForumProcs :
          (/\ req[p].pc = "del"
           /\ req'[p].pc = "done"
           /\ req'[p].resp.status \in {200, 201})
          => \A key \in DOMAIN cache' : ~(key.k = "comments" /\ key.thread = "t1")]_vars

====
